---- MODULE Spec2Model ----
(***************************************************************************)
(* State-machine model of the OTM8009A controller driver                   *)
(* (src/src/otm8009a/driver.rs), the reference pixel buffer                *)
(* (src/src/testing/mocks.rs, MockFramebuffer) and the colour conversion   *)
(* helpers (src/src/common.rs, src/src/traits.rs).                         *)
(*                                                                         *)
(* Every public operation of the driver is one action: the whole call,     *)
(* from entry to return, including every capability call it makes.  The    *)
(* capability calls of the last operation are kept in `calls`, in order.   *)
(* The channel and the layer manager are abstract: any send, the channel   *)
(* reset and any layer-manager call may fail; an operation stops at its    *)
(* first failure, so one failure index per operation covers all cases.     *)
(*                                                                         *)
(* The pixel buffer is 800x480; the model keeps its contents at the        *)
(* coordinates in Probes.  Every buffer operation decides each pixel       *)
(* independently of all others, so the projection is exact on the probes.  *)
(***************************************************************************)
EXTENDS Integers, Sequences, FiniteSets, TLC

(* ----------------------------- constants ------------------------------ *)

LCD_WIDTH == 800
LCD_HEIGHT == 480

OTM8009A_FORMAT_RGB565 == 85
OTM8009A_FORMAT_RGB888 == 119
OTM8009A_FORMAT_RGB666 == 102

OTM8009A_ORIENTATION_PORTRAIT == 0
OTM8009A_ORIENTATION_LANDSCAPE == 1
OTM8009A_ORIENTATION_PORTRAIT_FLIPPED == 2
OTM8009A_ORIENTATION_LANDSCAPE_FLIPPED == 3

WRITE_CTRL_DISPLAY == 83
WRITE_CABC == 85

CMD_EXTC == <<255, 128, 9, 1>>
CMD_ORISE_ENTER == <<128, 9, 0>>
CMD_GVDD_NGVDD == <<197, 23, 64>>
CMD_EXIT_CMD2 == <<255, 0, 0, 0>>
CMD_GAMMA_POSITIVE == <<224, 0, 9, 15, 14, 7, 16, 11, 10, 4, 7, 11, 8, 15, 16, 10, 1>>
CMD_GAMMA_NEGATIVE == <<225, 0, 9, 15, 14, 7, 16, 11, 10, 4, 7, 11, 8, 15, 16, 10, 1>>
CMD_RGB565 == <<58, 85>>
CMD_RGB888 == <<58, 119>>
CMD_RGB666 == <<58, 102>>
CMD_PORTRAIT == <<54, 0>>
CMD_LANDSCAPE == <<54, 96>>
CMD_PORTRAIT_FLIPPED == <<54, 192>>
CMD_LANDSCAPE_FLIPPED == <<54, 160>>
CMD_CASET_LANDSCAPE == <<42, 0, 0, 3, 31>>
CMD_CASET_PORTRAIT == <<42, 0, 0, 1, 223>>
CMD_PASET_LANDSCAPE == <<43, 0, 0, 1, 223>>
CMD_PASET_PORTRAIT == <<43, 0, 0, 3, 31>>
CMD_BRIGHTNESS_CTRL == <<83, 36>>
CMD_CABC_CTRL == <<85, 0>>
CMD_CABC_MIN_BRIGHTNESS == <<94, 0>>
CMD_DISPLAY_ON == <<41>>
CMD_WRITE_MEMORY_START == <<44>>
CMD_SLEEP_OUT == <<17>>
CMD_NOP == <<0>>
\* commands::DISPLAY_OFF, commands::SLEEP_IN
DISPLAY_OFF == 40
SLEEP_IN == 16

RESET_DELAY_MS == 10
SLEEP_OUT_DELAY_MS == 120
DISPLAY_ON_DELAY_MS == 40
CMD_DELAY_MS == 1

\* Colours of src/src/traits.rs (mod color).
BLACK == 0
RED == 63488

\* Width of the u16 arithmetic of the pixel operations.
U16 == 65536
\* Width of the u8 arithmetic of the colour components.
U8 == 256

(* ------------------------- input sets of the model --------------------- *)

\* Colour-format and orientation values offered to init / set_orientation:
\* the three (four) recognised values and one unrecognised value each.
ColorFormats == {OTM8009A_FORMAT_RGB565, OTM8009A_FORMAT_RGB888,
                 OTM8009A_FORMAT_RGB666, 0}
Orientations == {OTM8009A_ORIENTATION_PORTRAIT, OTM8009A_ORIENTATION_LANDSCAPE,
                 OTM8009A_ORIENTATION_PORTRAIT_FLIPPED,
                 OTM8009A_ORIENTATION_LANDSCAPE_FLIPPED, 4}
ValidFormats == {OTM8009A_FORMAT_RGB565, OTM8009A_FORMAT_RGB888, OTM8009A_FORMAT_RGB666}
ValidOrientations == {0, 1, 2, 3}

\* Pixel coordinates at which the buffer contents are kept.
Probes == {<<50, 11>>, <<400, 240>>, <<789, 470>>, <<790, 469>>, <<790, 470>>,
           <<799, 479>>}

\* Arguments offered to the pixel buffer's fill_rect (all are u16 values).
ArgX == {0, 790, 850}
ArgY == {470, 500}
ArgW == {50, 65535}
ArgH == {0, 50, 65535}
\* Rectangles <<x, y, w, h>> offered to the facade's fill_rect.
FacadeRects == {<<0, 0, 800, 480>>, <<790, 470, 50, 50>>, <<850, 0, 50, 50>>,
                <<0, 500, 50, 50>>, <<790, 470, 65535, 65535>>, <<400, 240, 0, 50>>}
\* Coordinates offered to set_pixel.
PixelXY == {<<400, 240>>, <<790, 470>>, <<850, 10>>, <<400, 480>>, <<799, 479>>,
            <<800, 479>>}
Colors == {BLACK, RED}
\* Inputs <<color_format, orientation, failAt, lfail>> offered to init: every
\* pair of values over capabilities that do not fail, and every failure point
\* (the failAt-th send, the lfail-th layer-manager call) for some of the pairs.
InitInputs ==
    {<<cf, o, 0, 0>> : cf \in ColorFormats, o \in Orientations}
    \cup {<<cf, o, f, 0>> : cf \in {OTM8009A_FORMAT_RGB565, 0},
                            o \in {OTM8009A_ORIENTATION_LANDSCAPE, 4},
                            f \in 1..18}
    \cup {<<cf, o, 0, l>> : cf \in {OTM8009A_FORMAT_RGB565, OTM8009A_FORMAT_RGB666},
                            o \in {OTM8009A_ORIENTATION_PORTRAIT,
                                   OTM8009A_ORIENTATION_LANDSCAPE},
                            l \in 1..3}
BrightnessArgs == {0, 36, 255}
CabcArgs == {0, 3, 4}
\* Integers offered to the shims' fill_rect as x, y, width, height, colour.
NifX == {-1, 0, 750, 799, 800}
NifY == {-1, 0, 450, 479, 480}
NifW == {-1, 0, 1, 50, 100, 800, 801}
NifH == {-1, 0, 1, 30, 50, 480, 481}
NifColor == {-1, 0}
\* Component values offered to extract_rgb_color: every u8 value in each
\* position beside all-zero and all-one neighbours, and values outside 0..255.
ComponentEnds == {0, 255}
NifRgb ==
    {<<v, a, b>> : v \in 0..255, a \in ComponentEnds, b \in ComponentEnds}
    \cup {<<a, v, b>> : v \in 0..255, a \in ComponentEnds, b \in ComponentEnds}
    \cup {<<a, b, v>> : v \in 0..255, a \in ComponentEnds, b \in ComponentEnds}
    \cup {<<128, 64, 192>>, <<-1, 0, 0>>, <<0, 256, 0>>, <<0, 0, 256>>}

VARIABLES
    initialized,      \* OTM8009ADriver.initialized
    width,            \* OTM8009ADriver.width
    height,           \* OTM8009ADriver.height
    fb,               \* MockFramebuffer.buffer, at the probes
    overflow_checks,  \* build profile: TRUE = u16 overflow panics, FALSE = wraps
    faulted,          \* a panic has ended the program
    lastOp,           \* the last operation called and its arguments
    lastResult,       \* what it returned
    calls,            \* the capability calls it made, in order
    e2e,              \* results of the matched prefix of the end-to-end scenario
    bring_up,         \* the last init/reset was an init given valid arguments
                      \* over capabilities that did not fail
    since_reset,      \* reset has been called and no init has returned Ok since
    ops,              \* operations made so far: 0, 1, or 2 for more
    session,          \* an init has returned Ok and reset has not been called since
    conv,             \* colour-conversion run (specification SpecColor)
    nif               \* scripting-host shim call (specification SpecNif)

vars == <<initialized, width, height, fb, overflow_checks, faulted,
          lastOp, lastResult, calls, e2e, bring_up, since_reset, ops, session,
          conv, nif>>

(* --------------------------- capability calls -------------------------- *)

NoCfg == [layer |-> 0, x0 |-> 0, x1 |-> 0, y0 |-> 0, y1 |-> 0,
          pixel_format |-> "none", alpha |-> 0, address |-> "none", pitch |-> 0]

\* DsiInterface::send_dcs_command(nb_params, params)
Send(nb, params) == [call |-> "send", ok |-> TRUE, nb |-> nb, params |-> params,
                     ms |-> 0, layer |-> 0, cfg |-> NoCfg]
\* DsiInterface::delay_ms(ms)
Delay(ms) == [call |-> "delay", ok |-> TRUE, nb |-> 0, params |-> <<>>,
              ms |-> ms, layer |-> 0, cfg |-> NoCfg]
\* DsiInterface::reset()
DsiReset(ok) == [call |-> "reset", ok |-> ok, nb |-> 0, params |-> <<>>,
                 ms |-> 0, layer |-> 0, cfg |-> NoCfg]
\* LtdcInterface::configure_layer / set_framebuffer / enable
Ltdc(name, ok, layer, cfg) == [call |-> name, ok |-> ok, nb |-> 0, params |-> <<>>,
                               ms |-> 0, layer |-> layer, cfg |-> cfg]

\* Runs capability calls in order; the failAt-th send of the operation
\* (counting from nsent) returns Err, and `?` ends the run there.
RECURSIVE Exec(_, _, _)
Exec(steps, failAt, nsent) ==
    IF steps = <<>> THEN [ok |-> TRUE, calls |-> <<>>, nsent |-> nsent]
    ELSE LET s == Head(steps) IN
         IF s.call = "send"
         THEN IF nsent + 1 = failAt
              THEN [ok |-> FALSE, calls |-> <<[s EXCEPT !.ok = FALSE]>>,
                    nsent |-> nsent + 1]
              ELSE LET r == Exec(Tail(steps), failAt, nsent + 1) IN
                   [ok |-> r.ok, calls |-> <<s>> \o r.calls, nsent |-> r.nsent]
         ELSE LET r == Exec(Tail(steps), failAt, nsent) IN
              [ok |-> r.ok, calls |-> <<s>> \o r.calls, nsent |-> r.nsent]

\* &cmd[1..] passed with nb_params = cmd.len().
SendTail_whole_len(cmd) == Send(Len(cmd), Tail(cmd))

\* &cmd[1..] with nb_params = cmd.len() - 1
SendTail(cmd) == Send(Len(cmd) - 1, Tail(cmd))

(* ------------------------------ the driver ----------------------------- *)

\* OTM8009ADriver::new
NewDriver == [initialized |-> FALSE, width |-> LCD_WIDTH, height |-> LCD_HEIGHT]

Ret(res, cs, d) == [res |-> res, calls |-> cs, d |-> d]

\* The command triple selected by the first match of set_orientation.
OrientationTriple(orientation) ==
    CASE orientation = OTM8009A_ORIENTATION_PORTRAIT ->
            <<CMD_PORTRAIT, CMD_CASET_PORTRAIT, CMD_PASET_PORTRAIT>>
      [] orientation = OTM8009A_ORIENTATION_LANDSCAPE ->
            <<CMD_LANDSCAPE, CMD_CASET_LANDSCAPE, CMD_PASET_LANDSCAPE>>
      [] orientation = OTM8009A_ORIENTATION_PORTRAIT_FLIPPED ->
            <<CMD_PORTRAIT_FLIPPED, CMD_CASET_PORTRAIT, CMD_PASET_PORTRAIT>>
      [] orientation = OTM8009A_ORIENTATION_LANDSCAPE_FLIPPED ->
            <<CMD_LANDSCAPE_FLIPPED, CMD_CASET_LANDSCAPE, CMD_PASET_LANDSCAPE>>
      [] OTHER -> <<>>

\* The dimension update with the portrait arm assigning the width only.
OrientedDims_width_only(d, orientation) ==
    IF orientation \in {OTM8009A_ORIENTATION_PORTRAIT,
                        OTM8009A_ORIENTATION_PORTRAIT_FLIPPED}
    THEN [d EXCEPT !.width = LCD_HEIGHT]
    ELSE [d EXCEPT !.width = LCD_WIDTH, !.height = LCD_HEIGHT]

\* The dimension update at the end of set_orientation.
OrientedDims(d, orientation) ==
    IF orientation \in {OTM8009A_ORIENTATION_PORTRAIT,
                        OTM8009A_ORIENTATION_PORTRAIT_FLIPPED}
    THEN [d EXCEPT !.width = LCD_HEIGHT, !.height = LCD_WIDTH]
    ELSE [d EXCEPT !.width = LCD_WIDTH, !.height = LCD_HEIGHT]

\* set_orientation sending the page-address command even after a failed send.
set_orientation_no_abort(d, orientation, failAt, nsent) ==
    IF ~d.initialized THEN Ret("NotReady", <<>>, d)
    ELSE IF OrientationTriple(orientation) = <<>> THEN Ret("InvalidConfig", <<>>, d)
    ELSE LET t == OrientationTriple(orientation)
             r == Exec(<<SendTail(t[1]), SendTail(t[2]), SendTail(t[3])>>,
                       failAt, nsent)
         IN  IF ~r.ok THEN Ret("CommError", r.calls \o <<SendTail(t[3])>>, d)
             ELSE Ret("Ok", r.calls, OrientedDims(d, orientation))

\* OTM8009ADriver::set_orientation.  nsent is the number of sends the
\* enclosing operation has already made (0 for a direct call).
set_orientation(d, orientation, failAt, nsent) ==
    IF ~d.initialized THEN Ret("NotReady", <<>>, d)
    ELSE IF OrientationTriple(orientation) = <<>> THEN Ret("InvalidConfig", <<>>, d)
    ELSE LET t == OrientationTriple(orientation)
             r == Exec(<<SendTail(t[1]), SendTail(t[2]), SendTail(t[3])>>,
                       failAt, nsent)
         IN  IF ~r.ok THEN Ret("CommError", r.calls, d)
             ELSE Ret("Ok", r.calls, OrientedDims(d, orientation))

\* The color_cmd match of init_otm8009a.
ColorCmd(color_format) ==
    CASE color_format = OTM8009A_FORMAT_RGB565 -> CMD_RGB565
      [] color_format = OTM8009A_FORMAT_RGB888 -> CMD_RGB888
      [] color_format = OTM8009A_FORMAT_RGB666 -> CMD_RGB666
      [] OTHER -> <<>>

\* init_otm8009a up to and including the sleep-out settle delay.
BringUpPrefix ==
    << SendTail(CMD_EXTC), Delay(CMD_DELAY_MS),
       Send(Len(CMD_ORISE_ENTER), CMD_ORISE_ENTER), Delay(CMD_DELAY_MS),
       SendTail(CMD_GVDD_NGVDD), Delay(CMD_DELAY_MS),
       SendTail(CMD_EXIT_CMD2), Delay(CMD_DELAY_MS),
       Send(0, <<>>), Delay(CMD_DELAY_MS),
       SendTail(CMD_GAMMA_POSITIVE),
       SendTail(CMD_GAMMA_NEGATIVE), Delay(CMD_DELAY_MS),
       Send(0, <<>>), Delay(SLEEP_OUT_DELAY_MS) >>

\* init_otm8009a after the set_orientation step.
BringUpSuffix ==
    << SendTail(CMD_BRIGHTNESS_CTRL),
       SendTail(CMD_CABC_CTRL),
       SendTail(CMD_CABC_MIN_BRIGHTNESS), Delay(CMD_DELAY_MS),
       Send(0, <<>>), Delay(DISPLAY_ON_DELAY_MS),
       Send(0, <<>>),
       Send(0, <<>>) >>

\* OTM8009ADriver::init_otm8009a
init_otm8009a(d, color_format, orientation, failAt) ==
    LET r1 == Exec(BringUpPrefix, failAt, 0) IN
    IF ~r1.ok THEN Ret("CommError", r1.calls, d)
    ELSE IF ColorCmd(color_format) = <<>> THEN Ret("InvalidConfig", r1.calls, d)
    ELSE
    LET r2 == Exec(<<SendTail(ColorCmd(color_format)), Delay(CMD_DELAY_MS)>>,
                   failAt, r1.nsent)
        c2 == r1.calls \o r2.calls
    IN
    IF ~r2.ok THEN Ret("CommError", c2, d)
    ELSE
    LET so == set_orientation(d, orientation, failAt, r2.nsent)
        c3 == c2 \o so.calls
    IN
    IF so.res # "Ok" THEN Ret(so.res, c3, so.d)
    ELSE
    LET r4 == Exec(BringUpSuffix, failAt, r2.nsent + 3) IN
    IF ~r4.ok THEN Ret("CommError", c3 \o r4.calls, so.d)
    ELSE Ret("Ok", c3 \o r4.calls, so.d)

\* The pixel_format match with RGB666 given the 16-bit layout.
LayerPixelFormat_rgb666_as_565(color_format) ==
    CASE color_format = OTM8009A_FORMAT_RGB565 -> "Rgb565"
      [] color_format = OTM8009A_FORMAT_RGB888 -> "Rgb888"
      [] color_format = OTM8009A_FORMAT_RGB666 -> "Rgb565"
      [] OTHER -> "none"

\* The pixel_format match of init.
LayerPixelFormat(color_format) ==
    CASE color_format = OTM8009A_FORMAT_RGB565 -> "Rgb565"
      [] color_format = OTM8009A_FORMAT_RGB888 -> "Rgb888"
      [] color_format = OTM8009A_FORMAT_RGB666 -> "Rgb888"
      [] OTHER -> "none"

\* The LayerConfig with the pitch taken from the layer's bytes per pixel.
MakeLayerConfig_pitch_by_format(d, color_format) ==
    [layer |-> 0, x0 |-> 0, x1 |-> d.width, y0 |-> 0, y1 |-> d.height,
     pixel_format |-> LayerPixelFormat(color_format), alpha |-> 255,
     address |-> "buffer_ptr",
     pitch |-> (d.width * (IF LayerPixelFormat(color_format) = "Rgb565"
                           THEN 2 ELSE 3)) % U16]

\* The LayerConfig built by init.
MakeLayerConfig(d, color_format) ==
    [layer |-> 0, x0 |-> 0, x1 |-> d.width, y0 |-> 0, y1 |-> d.height,
     pixel_format |-> LayerPixelFormat(color_format), alpha |-> 255,
     address |-> "buffer_ptr", pitch |-> (d.width * 2) % U16]

\* LtdcSteps with enable called ahead of configure_layer and set_framebuffer.
LtdcSteps_enable_first(cfg, lfail) ==
    LET all == << Ltdc("enable", lfail # 1, 0, NoCfg),
                  Ltdc("configure_layer", lfail # 2, 0, cfg),
                  Ltdc("set_framebuffer", lfail # 3, 0,
                       [NoCfg EXCEPT !.address = "buffer_ptr"]) >>
    IN  IF lfail = 0 THEN all ELSE SubSeq(all, 1, lfail)

\* The three layer-manager calls of init; the lfail-th one returns Err.
LtdcSteps(cfg, lfail) ==
    LET all == << Ltdc("configure_layer", lfail # 1, 0, cfg),
                  Ltdc("set_framebuffer", lfail # 2, 0,
                       [NoCfg EXCEPT !.address = "buffer_ptr"]),
                  Ltdc("enable", lfail # 3, 0, NoCfg) >>
    IN  IF lfail = 0 THEN all ELSE SubSeq(all, 1, lfail)

\* init passing a layer-manager failure on as Timeout.
init_ltdc_timeout(d, color_format, orientation, failAt, lfail) ==
    LET r == init_otm8009a(d, color_format, orientation, failAt) IN
    IF r.res # "Ok" THEN r
    ELSE IF LayerPixelFormat(color_format) = "none"
         THEN Ret("InvalidConfig", r.calls, r.d)
    ELSE LET ls == LtdcSteps(MakeLayerConfig(r.d, color_format), lfail) IN
         IF lfail # 0 THEN Ret("Timeout", r.calls \o ls, r.d)
         ELSE Ret("Ok", r.calls \o ls, [r.d EXCEPT !.initialized = TRUE])

\* OTM8009ADriver::init
init(d, color_format, orientation, failAt, lfail) ==
    LET r == init_otm8009a(d, color_format, orientation, failAt) IN
    IF r.res # "Ok" THEN r
    ELSE IF LayerPixelFormat(color_format) = "none"
         THEN Ret("InvalidConfig", r.calls, r.d)
    ELSE LET ls == LtdcSteps(MakeLayerConfig(r.d, color_format), lfail) IN
         IF lfail # 0 THEN Ret("CommError", r.calls \o ls, r.d)
         ELSE Ret("Ok", r.calls \o ls, [r.d EXCEPT !.initialized = TRUE])

\* reset with the flag assignment inverted.
reset_sets_flag(d, dsi_ok) ==
    IF ~dsi_ok THEN Ret("CommError", <<DsiReset(FALSE)>>, d)
    ELSE Ret("Ok", <<DsiReset(TRUE), Delay(RESET_DELAY_MS)>>,
             [d EXCEPT !.initialized = TRUE])

\* OTM8009ADriver::reset; dsi_ok is what the channel's reset returns.
reset(d, dsi_ok) ==
    IF ~dsi_ok THEN Ret("CommError", <<DsiReset(FALSE)>>, d)
    ELSE Ret("Ok", <<DsiReset(TRUE), Delay(RESET_DELAY_MS)>>,
             [d EXCEPT !.initialized = FALSE])

\* enter_sleep leaving the driver uninitialized.
enter_sleep_clears_flag(d, failAt) ==
    IF ~d.initialized THEN Ret("NotReady", <<>>, d)
    ELSE LET r == Exec(<<Send(0, <<>>), Delay(DISPLAY_ON_DELAY_MS),
                         Send(0, <<>>), Delay(SLEEP_OUT_DELAY_MS)>>, failAt, 0)
         IN  Ret(IF r.ok THEN "Ok" ELSE "CommError", r.calls,
                 [d EXCEPT !.initialized = FALSE])

\* OTM8009ADriver::enter_sleep
enter_sleep(d, failAt) ==
    IF ~d.initialized THEN Ret("NotReady", <<>>, d)
    ELSE LET r == Exec(<<Send(0, <<>>), Delay(DISPLAY_ON_DELAY_MS),
                         Send(0, <<>>), Delay(SLEEP_OUT_DELAY_MS)>>, failAt, 0)
         IN  Ret(IF r.ok THEN "Ok" ELSE "CommError", r.calls, d)

\* exit_sleep with the two settle delays exchanged.
exit_sleep_delays_swapped(d, failAt) ==
    IF ~d.initialized THEN Ret("NotReady", <<>>, d)
    ELSE LET r == Exec(<<Send(0, <<>>), Delay(DISPLAY_ON_DELAY_MS),
                         Send(0, <<>>), Delay(SLEEP_OUT_DELAY_MS)>>, failAt, 0)
         IN  Ret(IF r.ok THEN "Ok" ELSE "CommError", r.calls, d)

\* OTM8009ADriver::exit_sleep
exit_sleep(d, failAt) ==
    IF ~d.initialized THEN Ret("NotReady", <<>>, d)
    ELSE LET r == Exec(<<Send(0, <<>>), Delay(SLEEP_OUT_DELAY_MS),
                         Send(0, <<>>), Delay(DISPLAY_ON_DELAY_MS)>>, failAt, 0)
         IN  Ret(IF r.ok THEN "Ok" ELSE "CommError", r.calls, d)

\* set_brightness sending once more after a failed send.
set_brightness_retry(d, brightness, failAt) ==
    IF ~d.initialized THEN Ret("NotReady", <<>>, d)
    ELSE LET r == Exec(<<SendTail(<<WRITE_CTRL_DISPLAY, brightness>>)>>, failAt, 0)
         IN  IF r.ok THEN Ret("Ok", r.calls, d)
             ELSE Ret("Ok", r.calls \o <<SendTail(<<WRITE_CTRL_DISPLAY, brightness>>)>>,
                      d)

\* OTM8009ADriver::set_brightness
set_brightness(d, brightness, failAt) ==
    IF ~d.initialized THEN Ret("NotReady", <<>>, d)
    ELSE LET r == Exec(<<SendTail(<<WRITE_CTRL_DISPLAY, brightness>>)>>, failAt, 0)
         IN  Ret(IF r.ok THEN "Ok" ELSE "CommError", r.calls, d)

\* enable_cabc with the mode check ahead of the readiness check.
enable_cabc_mode_first(d, mode, failAt) ==
    IF mode > 3 THEN Ret("InvalidConfig", <<>>, d)
    ELSE IF ~d.initialized THEN Ret("NotReady", <<>>, d)
    ELSE LET r == Exec(<<SendTail(<<WRITE_CABC, mode>>)>>, failAt, 0)
         IN  Ret(IF r.ok THEN "Ok" ELSE "CommError", r.calls, d)

\* OTM8009ADriver::enable_cabc
enable_cabc(d, mode, failAt) ==
    IF ~d.initialized THEN Ret("NotReady", <<>>, d)
    ELSE IF mode > 3 THEN Ret("InvalidConfig", <<>>, d)
    ELSE LET r == Exec(<<SendTail(<<WRITE_CABC, mode>>)>>, failAt, 0)
         IN  Ret(IF r.ok THEN "Ok" ELSE "CommError", r.calls, d)

\* disable_cabc also turning the layer off.
disable_cabc_disables_layer(d, failAt) ==
    LET r == enable_cabc(d, 0, failAt) IN
    Ret(r.res, r.calls \o <<Ltdc("disable", TRUE, 0, NoCfg)>>, r.d)

\* OTM8009ADriver::disable_cabc
disable_cabc(d, failAt) == enable_cabc(d, 0, failAt)

(* ---------------------------- the pixel buffer ------------------------- *)

\* MockFramebuffer::new(LCD_WIDTH, LCD_HEIGHT): every pixel black.
FbWidth == LCD_WIDTH
FbHeight == LCD_HEIGHT
NewBuffer == [p \in Probes |-> 0]

Min(a, b) == IF a < b THEN a ELSE b

\* index = y * width + x, the position of a pixel in MockFramebuffer.buffer
Index(x, y) == y * FbWidth + x
BufferLen == FbWidth * FbHeight

\* MockFramebuffer::get_pixel; "None" outside the buffer.
get_pixel(buf, x, y) ==
    IF x >= FbWidth \/ y >= FbHeight THEN "None" ELSE buf[<<x, y>>]

\* MockFramebuffer::fill_rect.  x + width and y + height are u16 additions:
\* with overflow checks they panic when the sum does not fit, without they wrap.
MockFramebuffer_fill_rect(buf, x, y, w, h, color, oc) ==
    IF oc /\ (x + w >= U16 \/ y + h >= U16)
    THEN [panicked |-> TRUE, buf |-> buf]
    ELSE LET end_x == Min((x + w) % U16, FbWidth)
             end_y == Min((y + h) % U16, FbHeight)
         IN  [panicked |-> FALSE,
              buf |-> [p \in Probes |->
                         IF /\ y <= p[2] /\ p[2] < end_y
                            /\ x <= p[1] /\ p[1] < end_x
                            /\ Index(p[1], p[2]) < BufferLen
                         THEN color ELSE buf[p]]]

\* set_pixel without the x < width test.
MockFramebuffer_set_pixel_no_x_check(buf, x, y, color) ==
    IF y < FbHeight
    THEN [p \in Probes |->
            IF Index(x, y) = Index(p[1], p[2]) /\ Index(x, y) < BufferLen
            THEN color ELSE buf[p]]
    ELSE buf

\* MockFramebuffer::set_pixel
MockFramebuffer_set_pixel(buf, x, y, color) ==
    IF x < FbWidth /\ y < FbHeight
    THEN [p \in Probes |->
            IF Index(x, y) = Index(p[1], p[2]) /\ Index(x, y) < BufferLen
            THEN color ELSE buf[p]]
    ELSE buf

\* MockFramebuffer::clear
MockFramebuffer_clear(buf, color) == [p \in Probes |-> color]

\* The buffers handed to OTM8009ADriver::new: a new one, or one the caller
\* has drawn on before.
InitBuffers == {NewBuffer, MockFramebuffer_set_pixel(NewBuffer, 790, 470, RED)}

(* ---------------------------- the pixel facade ------------------------- *)

PRet(res, buf) == [res |-> res, buf |-> buf]

\* fill_rect with the coordinate check ahead of the readiness check.
fill_rect_bounds_first(d, buf, x, y, w, h, color, oc) ==
    IF x >= d.width \/ y >= d.height THEN PRet("InvalidCoordinates", buf)
    ELSE IF ~d.initialized THEN PRet("NotReady", buf)
    ELSE LET r == MockFramebuffer_fill_rect(buf, x, y, w, h, color, oc) IN
         IF r.panicked THEN PRet("panic", buf) ELSE PRet("Ok", r.buf)

\* OTM8009ADriver::fill_rect
fill_rect(d, buf, x, y, w, h, color, oc) ==
    IF ~d.initialized THEN PRet("NotReady", buf)
    ELSE IF x >= d.width \/ y >= d.height THEN PRet("InvalidCoordinates", buf)
    ELSE LET r == MockFramebuffer_fill_rect(buf, x, y, w, h, color, oc) IN
         IF r.panicked THEN PRet("panic", buf) ELSE PRet("Ok", r.buf)

\* OTM8009ADriver::set_pixel
set_pixel(d, buf, x, y, color) ==
    IF ~d.initialized THEN PRet("NotReady", buf)
    ELSE IF x >= d.width \/ y >= d.height THEN PRet("InvalidCoordinates", buf)
    ELSE PRet("Ok", MockFramebuffer_set_pixel(buf, x, y, color))

\* OTM8009ADriver::clear
clear(d, buf, color) ==
    IF ~d.initialized THEN PRet("NotReady", buf)
    ELSE PRet("Ok", MockFramebuffer_clear(buf, color))

(* --------------------------- colour conversion ------------------------- *)

RECURSIVE BitOr(_, _)
BitOr(a, b) ==
    IF a = 0 THEN b
    ELSE IF b = 0 THEN a
    ELSE (IF a % 2 = 1 \/ b % 2 = 1 THEN 1 ELSE 0) + 2 * BitOr(a \div 2, b \div 2)

RECURSIVE BitAnd(_, _)
BitAnd(a, b) ==
    IF a = 0 \/ b = 0 THEN 0
    ELSE (IF a % 2 = 1 /\ b % 2 = 1 THEN 1 ELSE 0) + 2 * BitAnd(a \div 2, b \div 2)

RECURSIVE Pow2(_)
Pow2(k) == IF k = 0 THEN 1 ELSE 2 * Pow2(k - 1)

\* v << k in an n-valued unsigned type: bits shifted out of the type are lost.
Shl(v, k, n) == (v * Pow2(k)) % n
\* v >> k
Shr(v, k) == v \div Pow2(k)

\* The 5/6/5-bit components rgb565_to_rgb888 extracts (r, g, b as u8).
Components565(color) ==
    [r |-> BitAnd(Shr(color, 11), 31) % U8,
     g |-> BitAnd(Shr(color, 5), 63) % U8,
     b |-> BitAnd(color, 31) % U8]

\* common::rgb565_to_rgb888
rgb565_to_rgb888(color) ==
    LET k == Components565(color) IN
    [r8 |-> BitOr(Shl(k.r, 3, U8), Shr(k.r, 2)),
     g8 |-> BitOr(Shl(k.g, 2, U8), Shr(k.g, 4)),
     b8 |-> BitOr(Shl(k.b, 3, U8), Shr(k.b, 2))]

\* rgb888_to_rgb565 keeping five bits of green instead of six.
rgb888_to_rgb565_green5(r, g, b) ==
    LET r5 == Shr(r, 3)
        g6 == Shr(g, 3)
        b5 == Shr(b, 3)
    IN  BitOr(BitOr(Shl(r5, 11, U16), Shl(g6, 5, U16)), b5)

\* common::rgb888_to_rgb565
rgb888_to_rgb565(r, g, b) ==
    LET r5 == Shr(r, 3)
        g6 == Shr(g, 2)
        b5 == Shr(b, 3)
    IN  BitOr(BitOr(Shl(r5, 11, U16), Shl(g6, 5, U16)), b5)

\* traits::color::rgb565_to_rgb888
color_rgb565_to_rgb888(color) ==
    LET k == Components565(color) IN
    [r8 |-> BitOr(Shl(k.r, 3, U8), Shr(k.r, 2)),
     g8 |-> BitOr(Shl(k.g, 2, U8), Shr(k.g, 4)),
     b8 |-> BitOr(Shl(k.b, 3, U8), Shr(k.b, 2))]

\* traits::color::rgb888_to_rgb565
color_rgb888_to_rgb565(r, g, b) ==
    LET r5 == Shr(r, 3)
        g6 == Shr(g, 2)
        b5 == Shr(b, 3)
    IN  BitOr(BitOr(Shl(r5, 11, U16), Shl(g6, 5, U16)), b5)

(* ------------------------ the scripting-host shims --------------------- *)

\* nif_impl::otm8009a_fill_rect, registered as ("fill_rect", 6), on six
\* arguments that are integers: the checks on x, y, width, height.
otm8009a_fill_rect(x, y, w, h, color) ==
    IF x < 0 \/ y < 0 \/ w <= 0 \/ h <= 0 THEN "BadArg"
    ELSE IF x + w > LCD_WIDTH \/ y + h > LCD_HEIGHT THEN "BadArg"
    ELSE "Ok"

\* nif_bindings::display_fill_rect_nif, registered as ("fill_rect", 6), on
\* six arguments that are integers.
display_fill_rect_nif(x, y, w, h, color) ==
    IF x < 0 \/ y < 0 \/ w <= 0 \/ h <= 0 \/ color < 0 THEN "BadArg"
    ELSE "Ok"

\* The tuple arm of extract_rgb_color keeping five bits of green.
extract_rgb_color_green5(r, g, b) ==
    IF r < 0 \/ r > 255 \/ g < 0 \/ g > 255 \/ b < 0 \/ b > 255
    THEN [res |-> "BadArg", value |-> 0]
    ELSE [res |-> "Ok",
          value |-> BitOr(BitOr(BitAnd(r, 248) * Pow2(8), BitAnd(g, 248) * Pow2(3)),
                          Shr(BitAnd(b, 248), 3))]

\* The tuple arm of extract_rgb_color.  The shifts are on u32 values of at
\* most 0xF8 and 0xFC, so no bit leaves the type.
extract_rgb_color(r, g, b) ==
    IF r < 0 \/ r > 255 \/ g < 0 \/ g > 255 \/ b < 0 \/ b > 255
    THEN [res |-> "BadArg", value |-> 0]
    ELSE [res |-> "Ok",
          value |-> BitOr(BitOr(BitAnd(r, 248) * Pow2(8), BitAnd(g, 252) * Pow2(3)),
                          Shr(BitAnd(b, 248), 3))]

(* ------------------------------- actions ------------------------------- *)

Driver == [initialized |-> initialized, width |-> width, height |-> height]

Op(name, args, failAt, lfail) ==
    [op |-> name, args |-> args, failAt |-> failAt, lfail |-> lfail]

PixelOps == {"fill_rect", "set_pixel", "clear"}

\* The operation recorded in lastOp was the first one on the driver.
FirstOp == lastOp.op # "new" /\ ops = 1

\* The end-to-end scenario: on a fresh driver, over capabilities that do not
\* fail, init(Rgb565, Landscape), clear(0x0000), fill_rect(0,0,800,480,0xF800).
E2EScript ==
    << Op("init", <<OTM8009A_FORMAT_RGB565, OTM8009A_ORIENTATION_LANDSCAPE>>, 0, 0),
       Op("clear", <<BLACK>>, 0, 0),
       Op("fill_rect", <<0, 0, LCD_WIDTH, LCD_HEIGHT, RED>>, 0, 0) >>

\* e2e after operation o returned res: the results of the scenario's calls
\* made so far, or empty when o is not the scenario's next call.
E2ENext(o, res) ==
    IF /\ Len(e2e) < Len(E2EScript)
       /\ Len(e2e) = 0 => ops = 0
       /\ o.op = E2EScript[Len(e2e) + 1].op
       /\ o = E2EScript[Len(e2e) + 1]
    THEN Append(e2e, res) ELSE <<>>

\* bring_up after operation o: an init with a recognised colour format and
\* orientation over capabilities that did not fail sets it, any other init
\* and every reset clears it.
BringUpNext(o) ==
    IF o.op = "init"
    THEN /\ o.args[1] \in ValidFormats /\ o.args[2] \in ValidOrientations
         /\ o.failAt = 0 /\ o.lfail = 0
    ELSE IF o.op = "reset" THEN FALSE ELSE bring_up

\* since_reset after operation o returned res: set by every reset, cleared by
\* an init that returns Ok.
SinceResetNext(o, res) ==
    IF o.op = "reset" THEN TRUE
    ELSE IF o.op = "init" /\ res = "Ok" THEN FALSE ELSE since_reset

\* session after operation o returned res: set by an init that returns Ok,
\* cleared by every reset.
SessionNext(o, res) ==
    IF o.op = "init" /\ res = "Ok" THEN TRUE
    ELSE IF o.op = "reset" THEN FALSE ELSE session

\* ops counts the operations made on the driver: 0, 1, or 2 for "more".
OpsNext == IF ops < 2 THEN ops + 1 ELSE 2

\* A driver operation that does not touch the pixel buffer returned r.
DriverStep(o, r) ==
    /\ ~faulted
    /\ initialized' = r.d.initialized
    /\ width' = r.d.width
    /\ height' = r.d.height
    /\ lastOp' = o
    /\ lastResult' = r.res
    /\ calls' = r.calls
    /\ e2e' = E2ENext(o, r.res)
    /\ bring_up' = BringUpNext(o)
    /\ since_reset' = SinceResetNext(o, r.res)
    /\ ops' = OpsNext
    /\ session' = SessionNext(o, r.res)
    /\ UNCHANGED <<fb, overflow_checks, faulted, conv, nif>>

\* A pixel operation (facade or direct) returned r.
PixelStep(o, r) ==
    /\ ~faulted
    /\ fb' = r.buf
    /\ faulted' = (r.res = "panic")
    /\ lastOp' = o
    /\ lastResult' = r.res
    /\ calls' = <<>>
    /\ e2e' = E2ENext(o, r.res)
    /\ bring_up' = BringUpNext(o)
    /\ since_reset' = SinceResetNext(o, r.res)
    /\ ops' = OpsNext
    /\ session' = SessionNext(o, r.res)
    /\ UNCHANGED <<initialized, width, height, overflow_checks, conv, nif>>

DoInit ==
    \E i \in InitInputs :
        DriverStep(Op("init", <<i[1], i[2]>>, i[3], i[4]),
                   init(Driver, i[1], i[2], i[3], i[4]))

DoSetOrientation ==
    \E o \in Orientations, failAt \in 0..3 :
        DriverStep(Op("set_orientation", <<o>>, failAt, 0),
                   set_orientation(Driver, o, failAt, 0))

DoReset ==
    \E dsi_ok \in BOOLEAN :
        DriverStep(Op("reset", <<>>, IF dsi_ok THEN 0 ELSE 1, 0),
                   reset(Driver, dsi_ok))

DoEnterSleep ==
    \E failAt \in 0..2 :
        DriverStep(Op("enter_sleep", <<>>, failAt, 0), enter_sleep(Driver, failAt))

DoExitSleep ==
    \E failAt \in 0..2 :
        DriverStep(Op("exit_sleep", <<>>, failAt, 0), exit_sleep(Driver, failAt))

DoSetBrightness ==
    \E b \in BrightnessArgs, failAt \in 0..1 :
        DriverStep(Op("set_brightness", <<b>>, failAt, 0),
                   set_brightness(Driver, b, failAt))

DoEnableCabc ==
    \E m \in CabcArgs, failAt \in 0..1 :
        DriverStep(Op("enable_cabc", <<m>>, failAt, 0),
                   enable_cabc(Driver, m, failAt))

DoDisableCabc ==
    \E failAt \in 0..1 :
        DriverStep(Op("disable_cabc", <<>>, failAt, 0), disable_cabc(Driver, failAt))

\* get_dimensions / is_initialized: pure reads of width, height, initialized.
DoQuery ==
    \E q \in {"get_dimensions", "is_initialized"} :
        DriverStep(Op(q, <<>>, 0, 0), Ret("Ok", <<>>, Driver))

DoFillRect ==
    \E q \in FacadeRects, c \in Colors :
        PixelStep(Op("fill_rect", <<q[1], q[2], q[3], q[4], c>>, 0, 0),
                  fill_rect(Driver, fb, q[1], q[2], q[3], q[4], c, overflow_checks))

DoSetPixel ==
    \E xy \in PixelXY, c \in Colors :
        PixelStep(Op("set_pixel", <<xy[1], xy[2], c>>, 0, 0),
                  set_pixel(Driver, fb, xy[1], xy[2], c))

DoClear ==
    \E c \in Colors :
        PixelStep(Op("clear", <<c>>, 0, 0), clear(Driver, fb, c))

\* The pixel buffer on its own (specification SpecFb).
FbFillRect ==
    \E x \in ArgX, y \in ArgY, w \in ArgW, h \in ArgH, c \in Colors :
        LET r == MockFramebuffer_fill_rect(fb, x, y, w, h, c, overflow_checks) IN
        PixelStep(Op("fb.fill_rect", <<x, y, w, h, c>>, 0, 0),
                  PRet(IF r.panicked THEN "panic" ELSE "returned", r.buf))

FbSetPixel ==
    \E xy \in PixelXY, c \in Colors :
        PixelStep(Op("fb.set_pixel", <<xy[1], xy[2], c>>, 0, 0),
                  PRet("returned", MockFramebuffer_set_pixel(fb, xy[1], xy[2], c)))

FbClear ==
    \E c \in Colors :
        PixelStep(Op("fb.clear", <<c>>, 0, 0),
                  PRet("returned", MockFramebuffer_clear(fb, c)))

NoNif == [stage |-> "idle", entry |-> "none", args |-> <<>>, res |-> "none",
          value |-> 0]

NoConv == [stage |-> "idle", impl |-> "none", c |-> 0, r |-> 0, g |-> 0, b |-> 0,
           r8 |-> 0, g8 |-> 0, b8 |-> 0, out |-> 0]

Init ==
    /\ initialized = NewDriver.initialized
    /\ width = NewDriver.width
    /\ height = NewDriver.height
    /\ fb \in InitBuffers
    /\ overflow_checks \in BOOLEAN
    /\ faulted = FALSE
    /\ lastOp = Op("new", <<>>, 0, 0)
    /\ lastResult = "Ok"
    /\ calls = <<>>
    /\ e2e = <<>>
    /\ bring_up = FALSE
    /\ since_reset = FALSE
    /\ ops = 0
    /\ session = FALSE
    /\ conv = NoConv
    /\ nif = NoNif

Next ==
    \/ DoInit
    \/ DoSetOrientation
    \/ DoReset
    \/ DoEnterSleep
    \/ DoExitSleep
    \/ DoSetBrightness
    \/ DoEnableCabc
    \/ DoDisableCabc
    \/ DoQuery
    \/ DoFillRect
    \/ DoSetPixel
    \/ DoClear

Spec == Init /\ [][Next]_vars

(* ------------------- the pixel buffer on its own ----------------------- *)

InitFb ==
    /\ initialized = NewDriver.initialized
    /\ width = NewDriver.width
    /\ height = NewDriver.height
    /\ fb = NewBuffer
    /\ overflow_checks \in BOOLEAN
    /\ faulted = FALSE
    /\ lastOp = Op("new", <<>>, 0, 0)
    /\ lastResult = "Ok"
    /\ calls = <<>>
    /\ e2e = <<>>
    /\ bring_up = FALSE
    /\ since_reset = FALSE
    /\ ops = 0
    /\ session = FALSE
    /\ conv = NoConv
    /\ nif = NoNif

NextFb == FbFillRect \/ FbSetPixel \/ FbClear

SpecFb == InitFb /\ [][NextFb]_vars

(* ------ the driver's operations on every value of the driver's fields --- *)

\* Each operation is a function of the fields of the driver it is called on.
\* InitCall draws the fields from every value the operations assign to them:
\* the flag from the two values init and reset write, the dimensions from the
\* two pairs set_orientation writes.  The constructor's value is one of them.
InitCall ==
    /\ initialized \in BOOLEAN
    /\ \E wh \in {<<LCD_WIDTH, LCD_HEIGHT>>, <<LCD_HEIGHT, LCD_WIDTH>>} :
          width = wh[1] /\ height = wh[2]
    /\ fb = NewBuffer
    /\ overflow_checks = FALSE
    /\ faulted = FALSE
    /\ lastOp = Op("new", <<>>, 0, 0)
    /\ lastResult = "Ok"
    /\ calls = <<>>
    /\ e2e = <<>>
    /\ bring_up = FALSE
    /\ since_reset = FALSE
    /\ ops = 0
    /\ session = FALSE
    /\ conv = NoConv
    /\ nif = NoNif

NextCall ==
    \/ DoInit
    \/ DoSetOrientation
    \/ DoReset
    \/ DoEnterSleep
    \/ DoExitSleep
    \/ DoSetBrightness
    \/ DoEnableCabc
    \/ DoDisableCabc
    \/ DoQuery

SpecCall == InitCall /\ [][NextCall]_vars

(* --- the driver and its facade on every value of the driver's fields --- *)

\* init over capabilities that do not fail, for every pair of arguments.
PlainInits == {i \in InitInputs : i[3] = 0 /\ i[4] = 0}

DoInitPlain ==
    \E i \in PlainInits :
        DriverStep(Op("init", <<i[1], i[2]>>, 0, 0),
                   init(Driver, i[1], i[2], 0, 0))

\* The fields drawn as in InitCall; the operations are all of the driver's,
\* pixel operations included, with init over capabilities that do not fail.
NextFacade ==
    \/ DoInitPlain
    \/ DoSetOrientation
    \/ DoReset
    \/ DoEnterSleep
    \/ DoExitSleep
    \/ DoSetBrightness
    \/ DoEnableCabc
    \/ DoDisableCabc
    \/ DoQuery
    \/ DoFillRect
    \/ DoSetPixel
    \/ DoClear

SpecFacade == InitCall /\ [][NextFacade]_vars

(* ----------- the colour conversions on every 16-bit value -------------- *)

Impls == {"common", "color"}

InitColor ==
    /\ initialized = NewDriver.initialized
    /\ width = NewDriver.width
    /\ height = NewDriver.height
    /\ fb = NewBuffer
    /\ overflow_checks = FALSE
    /\ faulted = FALSE
    /\ lastOp = Op("new", <<>>, 0, 0)
    /\ lastResult = "Ok"
    /\ calls = <<>>
    /\ e2e = <<>>
    /\ bring_up = FALSE
    /\ since_reset = FALSE
    /\ ops = 0
    /\ session = FALSE
    /\ \E c \in 0..(U16 - 1), i \in Impls :
          conv = [NoConv EXCEPT !.stage = "in", !.impl = i, !.c = c]
    /\ nif = NoNif

\* rgb565_to_rgb888(c)
Expand ==
    /\ conv.stage = "in"
    /\ LET k == Components565(conv.c)
           e == IF conv.impl = "common" THEN rgb565_to_rgb888(conv.c)
                ELSE color_rgb565_to_rgb888(conv.c)
       IN  conv' = [conv EXCEPT !.stage = "rgb", !.r = k.r, !.g = k.g, !.b = k.b,
                                !.r8 = e.r8, !.g8 = e.g8, !.b8 = e.b8]
    /\ UNCHANGED <<initialized, width, height, fb, overflow_checks, faulted,
                   lastOp, lastResult, calls, e2e, bring_up, since_reset, ops,
                   session, nif>>

\* rgb888_to_rgb565 of the three components
Pack ==
    /\ conv.stage = "rgb"
    /\ conv' = [conv EXCEPT !.stage = "out",
                  !.out = IF conv.impl = "common"
                          THEN rgb888_to_rgb565(conv.r8, conv.g8, conv.b8)
                          ELSE color_rgb888_to_rgb565(conv.r8, conv.g8, conv.b8)]
    /\ UNCHANGED <<initialized, width, height, fb, overflow_checks, faulted,
                   lastOp, lastResult, calls, e2e, bring_up, since_reset, ops,
                   session, nif>>

NextColor == Expand \/ Pack

SpecColor == InitColor /\ [][NextColor]_vars

(* ---------------------- the scripting-host shims ----------------------- *)

FillRectEntries == {"otm8009a_fill_rect", "display_fill_rect_nif"}

InitNif ==
    /\ initialized = NewDriver.initialized
    /\ width = NewDriver.width
    /\ height = NewDriver.height
    /\ fb = NewBuffer
    /\ overflow_checks = FALSE
    /\ faulted = FALSE
    /\ lastOp = Op("new", <<>>, 0, 0)
    /\ lastResult = "Ok"
    /\ calls = <<>>
    /\ e2e = <<>>
    /\ bring_up = FALSE
    /\ since_reset = FALSE
    /\ ops = 0
    /\ session = FALSE
    /\ conv = NoConv
    /\ \/ \E e \in FillRectEntries, x \in NifX, y \in NifY, w \in NifW,
             h \in NifH, c \in NifColor :
             nif = [NoNif EXCEPT !.stage = "in", !.entry = e,
                                 !.args = <<x, y, w, h, c>>]
       \/ \E t \in NifRgb :
             nif = [NoNif EXCEPT !.stage = "in", !.entry = "extract_rgb_color",
                                 !.args = t]

\* A call of a shim entry point registered as fill_rect.
NifFillRect ==
    /\ nif.stage = "in"
    /\ nif.entry \in FillRectEntries
    /\ LET a == nif.args IN
       nif' = [nif EXCEPT !.stage = "out",
                 !.res = IF nif.entry = "otm8009a_fill_rect"
                         THEN otm8009a_fill_rect(a[1], a[2], a[3], a[4], a[5])
                         ELSE display_fill_rect_nif(a[1], a[2], a[3], a[4], a[5])]
    /\ UNCHANGED <<initialized, width, height, fb, overflow_checks, faulted,
                   lastOp, lastResult, calls, e2e, bring_up, since_reset, ops,
                   session, conv>>

\* A call of extract_rgb_color on a tuple of three integers.
NifExtractRgb ==
    /\ nif.stage = "in"
    /\ nif.entry = "extract_rgb_color"
    /\ LET r == extract_rgb_color(nif.args[1], nif.args[2], nif.args[3]) IN
       nif' = [nif EXCEPT !.stage = "out", !.res = r.res, !.value = r.value]
    /\ UNCHANGED <<initialized, width, height, fb, overflow_checks, faulted,
                   lastOp, lastResult, calls, e2e, bring_up, since_reset, ops,
                   session, conv>>

NextNif == NifFillRect \/ NifExtractRgb

SpecNif == InitNif /\ [][NextNif]_vars

(* ------------------------------- claims -------------------------------- *)

ValidInit ==
    /\ lastOp.op = "init"
    /\ lastOp.args[1] \in ValidFormats
    /\ lastOp.args[2] \in ValidOrientations
    /\ lastOp.failAt = 0
    /\ lastOp.lfail = 0

\* C1: on a freshly constructed driver, init with a colour format in
\* {0x55, 0x66, 0x77} and an orientation in {0, 1, 2, 3}, over a channel and a
\* layer manager that do not fail, returns Ok and leaves is_initialized() true.
C1_InitMakesReady ==
    (FirstOp /\ ValidInit) => (lastResult = "Ok" /\ initialized)

\* C2: on a fresh driver over capabilities that do not fail, init(Rgb565,
\* Landscape), clear(0x0000), fill_rect(0, 0, 800, 480, 0xF800) each return
\* Ok, and afterwards get_pixel(400, 240) is 0xF800.
C2_EndToEnd ==
    Len(e2e) = Len(E2EScript) =>
        /\ \A i \in 1..Len(e2e) : e2e[i] = "Ok"
        /\ get_pixel(fb, 400, 240) = RED

PortraitOrientations == {OTM8009A_ORIENTATION_PORTRAIT,
                         OTM8009A_ORIENTATION_PORTRAIT_FLIPPED}

C4_UnknownFormatRejected ==
    (lastOp.op = "init" /\ lastOp.args[1] \notin ValidFormats)
    => (lastResult = "InvalidConfig" /\ ~initialized)

\* C5: after reset() is called, from any state, is_initialized() is false, and
\* it stays false and every fill_rect, set_pixel and clear returns NotReady
\* until an init returns Ok.
C5_ResetUninitializes ==
    /\ lastOp.op = "reset" => ~initialized
    /\ since_reset => ~initialized
    /\ (since_reset /\ lastOp.op \in PixelOps) => lastResult = "NotReady"

C5_Witness ==
    /\ since_reset
    /\ lastOp.op = "fill_rect"
    /\ lastOp.args = <<0, 0, 800, 480, RED>>
    /\ lastResult = "NotReady"
    /\ ~initialized

C7_NotReadyFirst ==
    [][ (~initialized /\ lastOp'.op \in PixelOps) =>
          (lastResult' = "NotReady" /\ fb' = fb) ]_vars

C7_Witness ==
    /\ ~initialized
    /\ lastOp.op = "fill_rect"
    /\ lastOp.args = <<850, 0, 50, 50, BLACK>>
    /\ lastResult = "NotReady"
    /\ fb[<<790, 470>>] = RED

\* The pixels the claim says fill_rect sets: x <= px < min(x + w, W) and
\* y <= py < min(y + h, H), with the sums taken in the integers.
ClippedFill(buf, x, y, w, h, color) ==
    [p \in Probes |->
        IF /\ x <= p[1] /\ p[1] < Min(x + w, FbWidth)
           /\ y <= p[2] /\ p[2] < Min(y + h, FbHeight)
        THEN color ELSE buf[p]]

\* C8: for all 16-bit x, y, w, h the pixel buffer's fill_rect sets exactly the
\* pixels of the rectangle clipped to the buffer (sums without wrap-around),
\* leaves the others unchanged, and never rejects or faults.
C8_FillClips ==
    [][ lastOp'.op = "fb.fill_rect" =>
          LET a == lastOp'.args IN
          /\ lastResult' = "returned"
          /\ fb' = ClippedFill(fb, a[1], a[2], a[3], a[4], a[5]) ]_vars

\* C9: the pixel buffer's set_pixel(x, y, c) with x >= W or y >= H changes no
\* pixel and reports no error; with x < W and y < H it changes exactly the
\* pixel (x, y) to c.
C9_SetPixelExact ==
    [][ lastOp'.op = "fb.set_pixel" =>
          LET a == lastOp'.args IN
          /\ lastResult' = "returned"
          /\ ~faulted'
          /\ \A p \in Probes :
               fb'[p] = IF p = <<a[1], a[2]>> /\ a[1] < FbWidth /\ a[2] < FbHeight
                        THEN a[3] ELSE fb[p] ]_vars

C9_Witness ==
    /\ lastOp.op = "fb.set_pixel"
    /\ lastOp.args = <<850, 10, RED>>
    /\ lastResult = "returned"
    /\ \A p \in Probes : fb[p] = BLACK

\* C10: for every 16-bit c, rgb888_to_rgb565 of the components returned by
\* rgb565_to_rgb888(c) is c, and no left shift of an 8-bit component in
\* rgb565_to_rgb888 loses a bit.
C10_RoundTrip ==
    /\ conv.stage \in {"rgb", "out"} =>
          /\ conv.r * 8 < U8 /\ conv.g * 4 < U8 /\ conv.b * 8 < U8
          /\ conv.r8 \in 0..255 /\ conv.g8 \in 0..255 /\ conv.b8 \in 0..255
    /\ conv.stage = "out" => conv.out = conv.c

C10_Witness ==
    /\ conv.stage = "out"
    /\ conv.c = 43981
    /\ conv.out = 43981
    /\ <<conv.r8, conv.g8, conv.b8>> = <<173, 121, 107>>

(* --------------------- claims about the wire traffic ------------------- *)

\* The sends among a sequence of capability calls, in order.
Sends(cs) == SelectSeq(cs, LAMBDA s : s.call = "send")

\* The number of sends among the first i calls of cs.
SendCount(cs, i) == Cardinality({j \in 1..i : cs[j].call = "send"})

\* Send s hands the channel the command byte of table row `row` together with
\* the row's parameter bytes, in order: the command byte leads the bytes, or
\* follows them (the two layouts of a (nb_params, params) transaction).
Carries(s, row) == s.params \in {row, Append(Tail(row), row[1])}

\* The rows of the bring-up sequence, unlock through colour-format select.
BringUpRows(color_format) ==
    << CMD_EXTC, CMD_ORISE_ENTER, CMD_GVDD_NGVDD, CMD_EXIT_CMD2, CMD_NOP,
       CMD_GAMMA_POSITIVE, CMD_GAMMA_NEGATIVE, CMD_SLEEP_OUT,
       ColorCmd(color_format) >>

\* C11: over a channel on which every send succeeds, the first nine
\* transactions of init are, in this order, unlock (0xFF; 80 09 01), enter
\* vendor mode 2 (0x80; 09 00), GVDD/NGVDD (0xC5; 17 40), exit vendor mode 2
\* (0xFF; 00 00 00), no-op (0x00), positive gamma (0xE0; 16 bytes), negative
\* gamma (0xE1; 16 bytes), sleep-out (0x11) and colour-format select (0x3A;
\* the requested format).
C11_BringUpOrder ==
    (/\ lastOp.op = "init"
     /\ lastOp.failAt = 0
     /\ lastOp.args[1] \in ValidFormats)
    => LET s == Sends(calls)
           rows == BringUpRows(lastOp.args[1])
       IN  /\ Len(s) >= Len(rows)
           /\ \A i \in 1..Len(rows) : Carries(s[i], rows[i])

\* The table rows of the transactions of operation o, in the order the
\* operation is to send them.
TableRows(o) ==
    CASE o.op = "init" ->
            BringUpRows(o.args[1]) \o OrientationTriple(o.args[2])
            \o << CMD_BRIGHTNESS_CTRL, CMD_CABC_CTRL, CMD_CABC_MIN_BRIGHTNESS,
                  CMD_DISPLAY_ON, CMD_NOP, CMD_NOP >>
      [] o.op = "set_orientation" -> OrientationTriple(o.args[1])
      [] o.op = "enter_sleep" -> << <<DISPLAY_OFF>>, <<SLEEP_IN>> >>
      [] o.op = "exit_sleep" -> << CMD_SLEEP_OUT, CMD_DISPLAY_ON >>
      [] o.op = "set_brightness" -> << <<WRITE_CTRL_DISPLAY, o.args[1]>> >>
      [] o.op = "enable_cabc" -> << <<WRITE_CABC, o.args[1]>> >>
      [] o.op = "disable_cabc" -> << <<WRITE_CABC, 0>> >>
      [] OTHER -> <<>>

\* C12: every transaction an operation hands to the channel carries the
\* command byte of its table row together with the row's parameter bytes, so
\* that transactions of rows with different command bytes (sleep-out,
\* display-on, display-off, sleep-in, no-op; 0x36, 0x2A, 0x2B) differ.
C12_CommandByteCarried ==
    LET s == Sends(calls)
        rows == TableRows(lastOp)
        n == Min(Len(s), Len(rows))
    IN  /\ \A i \in 1..n : Len(rows[i]) > 0 => Carries(s[i], rows[i])
        /\ \A i, j \in 1..n :
             (Len(rows[i]) > 0 /\ Len(rows[j]) > 0 /\ rows[i][1] # rows[j][1])
             => s[i].params # s[j].params

\* C13: in init's bring-up sequence (unlock through colour-format select) the
\* call after every command but the last is a delay of at least 1 ms: no two
\* bring-up commands are sent back to back.
C13_BringUpDelays ==
    lastOp.op = "init" =>
        \A i \in 1..(Len(calls) - 1) :
            (/\ calls[i].call = "send"
             /\ calls[i].ok
             /\ SendCount(calls, i) < Len(BringUpRows(lastOp.args[1])))
            => (calls[i + 1].call = "delay" /\ calls[i + 1].ms >= CMD_DELAY_MS)

\* In the calls cs, the call right after the k-th send, when that send
\* succeeded, is a delay of ms milliseconds.
SettleAfter(cs, k, ms) ==
    \A i \in 1..Len(cs) :
        (cs[i].call = "send" /\ cs[i].ok /\ SendCount(cs, i) = k)
        => (i < Len(cs) /\ cs[i + 1].call = "delay" /\ cs[i + 1].ms = ms)

\* C14: in init and in exit_sleep the channel call right after the sleep-out
\* transaction is a delay of 120 ms and the one right after the display-on
\* transaction is a delay of 40 ms; no command comes between a transaction
\* and its settle delay.
C14_SettleDelays ==
    lastOp.op \in {"init", "exit_sleep"} =>
        LET rows == TableRows(lastOp) IN
        \A k \in 1..Len(rows) :
            /\ rows[k] = CMD_SLEEP_OUT => SettleAfter(calls, k, 120)
            /\ rows[k] = CMD_DISPLAY_ON => SettleAfter(calls, k, 40)

C14_Witness ==
    /\ lastOp.op = "exit_sleep"
    /\ lastResult = "Ok"
    /\ Len(calls) = 4
    /\ calls[1].call = "send" /\ calls[2] = Delay(120)
    /\ calls[3].call = "send" /\ calls[4] = Delay(40)

\* C15: in init, set_orientation, enter_sleep, exit_sleep, set_brightness and
\* enable_cabc a send that returns an error is the operation's last
\* capability call (no further send, delay or layer-manager call, no second
\* attempt) and the operation returns CommError.
C15_AbortOnSendFailure ==
    lastOp.op \in {"init", "set_orientation", "enter_sleep", "exit_sleep",
                   "set_brightness", "enable_cabc"} =>
        \A i \in 1..Len(calls) :
            (calls[i].call = "send" /\ ~calls[i].ok)
            => (i = Len(calls) /\ lastResult = "CommError")

C15_Witness ==
    /\ lastOp.op = "set_orientation"
    /\ lastOp.failAt = 2
    /\ lastResult = "CommError"
    /\ Len(calls) = 2
    /\ calls[1].ok /\ ~calls[2].ok

(* ------------------------ claims about failures ------------------------ *)

C19_InitUnknownOrientation ==
    (/\ FirstOp
     /\ lastOp.op = "init"
     /\ lastOp.args[1] \in ValidFormats
     /\ lastOp.args[2] \notin {0, 1, 2, 3}
     /\ lastOp.failAt = 0)
    => (lastResult = "InvalidConfig" /\ ~initialized)

\* The three transactions the orientation table gives for orientation o:
\* 0x36 with 0x00 / 0x60 / 0xC0 / 0xA0, then 0x2A and 0x2B with the ranges
\* 00 00 01 DF and 00 00 03 1F (portrait) or 00 00 03 1F and 00 00 01 DF
\* (landscape).
ClaimedTriple(o) ==
    CASE o = 0 -> << <<54, 0>>,   <<42, 0, 0, 1, 223>>, <<43, 0, 0, 3, 31>> >>
      [] o = 1 -> << <<54, 96>>,  <<42, 0, 0, 3, 31>>,  <<43, 0, 0, 1, 223>> >>
      [] o = 2 -> << <<54, 192>>, <<42, 0, 0, 1, 223>>, <<43, 0, 0, 3, 31>> >>
      [] o = 3 -> << <<54, 160>>, <<42, 0, 0, 3, 31>>,  <<43, 0, 0, 1, 223>> >>

C21_BringUpTail ==
    (/\ FirstOp
     /\ lastOp.op = "init"
     /\ lastOp.args[1] \in ValidFormats
     /\ lastOp.args[2] \in ValidOrientations
     /\ lastOp.failAt = 0)
    => LET s == Sends(calls)
           t == << <<83, 36>>, <<85, 0>>, <<94, 0>>, <<41>>, <<0>>, <<0>> >>
       IN  /\ Len(s) = 18
           /\ \A i \in 1..6 : Carries(s[12 + i], t[i])
           /\ SettleAfter(calls, 16, 40)

\* C23: every reset(), whatever the channel's reset returns, calls the
\* channel's reset once, then requests one delay of 10 ms, sends no command,
\* and ends with is_initialized() false.
C23_ResetSequence ==
    lastOp.op = "reset" =>
        /\ Len(calls) = 2
        /\ calls[1].call = "reset"
        /\ calls[2] = Delay(10)
        /\ ~initialized

\* The operations of LtdcInterface that change the layer manager.
LtdcCalls == {"configure_layer", "set_framebuffer", "enable", "disable"}

\* The positions of the layer-manager calls among the calls cs.
LtdcAt(cs) == {i \in 1..Len(cs) : cs[i].call \in LtdcCalls}

\* C22: the layer-manager calls of init are configure(0, cfg), then
\* set_framebuffer(0, buffer base address), then enable(), in that order (up
\* to the first that fails), all after the last channel transaction of init
\* has succeeded, and init returns Ok only after all three; no operation
\* passes a layer index other than 0 or calls disable().
C22_LayerManagerOrder ==
    LET at == LtdcAt(calls)
        n == Cardinality(at)
        first == Len(calls) - n + 1
        order == <<"configure_layer", "set_framebuffer", "enable">>
    IN  /\ \A i \in at : calls[i].call # "disable" /\ calls[i].layer = 0
        /\ at # {} => lastOp.op = "init"
        /\ lastOp.op = "init" =>
              /\ at = first..Len(calls)
              /\ n <= 3
              /\ \A k \in 1..n : calls[first + k - 1].call = order[k]
              /\ \A k \in 1..(n - 1) : calls[first + k - 1].ok
              /\ n > 0 => /\ \A j \in 1..(first - 1) : calls[j].ok
                          /\ Len(Sends(calls)) = Len(TableRows(lastOp))
              /\ n > 1 => calls[first + 1].cfg.address = calls[first].cfg.address
              /\ lastResult = "Ok" <=> (n = 3 /\ calls[Len(calls)].ok)

C22_Witness ==
    /\ lastOp.op = "init"
    /\ lastResult = "Ok"
    /\ initialized
    /\ Len(calls) = 31
    /\ calls[29].call = "configure_layer" /\ calls[29].layer = 0
    /\ calls[30].call = "set_framebuffer" /\ calls[30].cfg.address = "buffer_ptr"
    /\ calls[31].call = "enable"
    /\ calls[28].call = "send"

C26_DimensionsArePanel ==
    <<width, height>> \in {<<800, 480>>, <<480, 800>>}

C26_Witness ==
    /\ lastOp.op = "set_orientation"
    /\ lastOp.args = <<OTM8009A_ORIENTATION_PORTRAIT_FLIPPED>>
    /\ lastResult = "Ok"
    /\ <<width, height>> = <<480, 800>>
    /\ ops = 2

\* The calls cs of operation o send the colour-format select row (0x3A) or
\* program the layer (and with it the layer's pixel format).
ColorFormatTouched(o, cs) ==
    \/ \E k \in 1..Min(Len(Sends(cs)), Len(TableRows(o))) :
          Len(TableRows(o)[k]) > 0 /\ TableRows(o)[k][1] = 58
    \/ \E i \in 1..Len(cs) : cs[i].call = "configure_layer"

C28_LayerConfig ==
    \A i \in 1..Len(calls) :
        calls[i].call = "configure_layer" =>
            LET c == calls[i].cfg
                cf == lastOp.args[1]
            IN  /\ lastOp.op = "init"
                /\ calls[i].layer = 0 /\ c.layer = 0
                /\ <<c.x0, c.y0>> = <<0, 0>>
                /\ <<c.x1, c.y1>> = <<width, height>>
                /\ c.alpha = 255
                /\ c.address = "buffer_ptr"
                /\ c.pixel_format = CASE cf = 85 -> "Rgb565"
                                      [] cf = 119 -> "Rgb888"
                                      [] cf = 102 -> "Rgb888"

C28_Witness ==
    /\ lastOp.op = "init"
    /\ lastOp.args = <<OTM8009A_FORMAT_RGB666, OTM8009A_ORIENTATION_PORTRAIT>>
    /\ \E i \in 1..Len(calls) :
          /\ calls[i].call = "configure_layer"
          /\ calls[i].cfg.pixel_format = "Rgb888"
          /\ <<calls[i].cfg.x1, calls[i].cfg.y1>> = <<480, 800>>

C30_ErrorTaxonomy ==
    /\ lastResult \in {"Ok", "NotReady", "InvalidConfig", "CommError",
                       "InvalidCoordinates"}
    /\ (\E i \in 1..Len(calls) : ~calls[i].ok) => lastResult = "CommError"

C30_Witness ==
    /\ lastOp.op = "init"
    /\ lastOp.lfail = 2
    /\ lastResult = "CommError"
    /\ calls[Len(calls)].call = "set_framebuffer"
    /\ ~calls[Len(calls)].ok

\* C31: while the flag is false, a direct call of set_orientation,
\* enter_sleep, exit_sleep, set_brightness, enable_cabc or disable_cabc
\* returns NotReady whatever its arguments (an unknown orientation and a CABC
\* mode above 3 included), makes no capability call, and leaves the
\* dimensions and the flag as they were.
GuardedOps == {"set_orientation", "enter_sleep", "exit_sleep", "set_brightness",
               "enable_cabc", "disable_cabc"}

C31_NotReadyGuards ==
    [][ (~initialized /\ lastOp'.op \in GuardedOps)
        => /\ lastResult' = "NotReady"
           /\ calls' = <<>>
           /\ UNCHANGED <<initialized, width, height>> ]_vars

C31_Witness ==
    /\ lastOp.op = "enable_cabc"
    /\ lastOp.args = <<4>>
    /\ lastResult = "NotReady"
    /\ calls = <<>>
    /\ ~initialized

\* C32: init given an unrecognised colour format returns before any
\* transaction or delay has been placed on the channel and before any
\* layer-manager call.
C32_FormatCheckedFirst ==
    (lastOp.op = "init" /\ lastOp.args[1] \notin ValidFormats) => calls = <<>>

\* The number of calls named c among the calls cs.
CallCount(cs, c) == Cardinality({i \in 1..Len(cs) : cs[i].call = c})

\* C35: an operation makes a bounded number of capability calls and repeats
\* none: init at most 18 sends and 3 layer-manager calls, set_orientation at
\* most 3 sends, enter_sleep and exit_sleep at most 2 sends each,
\* set_brightness, enable_cabc and disable_cabc at most 1 send, reset no send
\* and exactly 1 channel reset; no send follows a send that failed.
C35_BoundedCalls ==
    LET ns == CallCount(calls, "send")
        nl == Cardinality(LtdcAt(calls))
        nr == CallCount(calls, "reset")
    IN  /\ lastOp.op = "init" => (ns <= 18 /\ nl <= 3 /\ nr = 0)
        /\ lastOp.op = "set_orientation" => (ns <= 3 /\ nl = 0 /\ nr = 0)
        /\ lastOp.op \in {"enter_sleep", "exit_sleep"}
              => (ns <= 2 /\ nl = 0 /\ nr = 0)
        /\ lastOp.op \in {"set_brightness", "enable_cabc", "disable_cabc"}
              => (ns <= 1 /\ nl = 0 /\ nr = 0)
        /\ lastOp.op = "reset" => (ns = 0 /\ nl = 0 /\ nr = 1)
        /\ \A i \in 1..Len(calls) : ~calls[i].ok => i = Len(calls)

C35_Witness ==
    /\ lastOp.op = "init"
    /\ lastResult = "Ok"
    /\ CallCount(calls, "send") = 18
    /\ Cardinality(LtdcAt(calls)) = 3

\* C37: in every transaction handed to the channel, nb_params is the number
\* of bytes of the params slice passed with it.
C37_ParamCount ==
    \A i \in 1..Len(calls) :
        calls[i].call = "send" => calls[i].nb = Len(calls[i].params)

C37_Witness ==
    /\ lastOp.op = "init"
    /\ lastResult = "Ok"
    /\ Sends(calls)[2].params = CMD_ORISE_ENTER
    /\ Sends(calls)[2].nb = 3
    /\ Sends(calls)[6].nb = 16
    /\ Len(Sends(calls)[6].params) = 16
    /\ Sends(calls)[8].nb = 0

\* C38: the framebuffer_pitch init puts in the LayerConfig is twice the
\* current width (1600 or 960) for every accepted colour format.
C38_PitchTwiceWidth ==
    \A i \in 1..Len(calls) :
        calls[i].call = "configure_layer"
        => /\ calls[i].cfg.pitch = 2 * width
           /\ calls[i].cfg.pitch \in {1600, 960}

C38_Witness ==
    /\ lastOp.op = "init"
    /\ lastOp.args = <<OTM8009A_FORMAT_RGB888, OTM8009A_ORIENTATION_LANDSCAPE>>
    /\ \E i \in 1..Len(calls) :
          /\ calls[i].call = "configure_layer"
          /\ calls[i].cfg.pixel_format = "Rgb888"
          /\ calls[i].cfg.pitch = 1600

(* ------------------ claims about the scripting-host shims -------------- *)

\* The argument check C33 states, on <<x, y, w, h, colour>>.
ClaimedRectCheck(a) ==
    /\ a[1] >= 0 /\ a[2] >= 0 /\ a[3] > 0 /\ a[4] > 0
    /\ a[1] + a[3] <= 800
    /\ a[2] + a[4] <= 480

\* C33: every shim entry point named fill_rect accepts integers (x, y, w, h)
\* if and only if x >= 0, y >= 0, w > 0, h > 0, x + w <= 800 and
\* y + h <= 480.
C33_ShimRectCheck ==
    (nif.stage = "out" /\ nif.entry \in FillRectEntries)
    => (nif.res = "Ok" <=> ClaimedRectCheck(nif.args))

\* C34: for r, g, b in 0..255 the shim's tuple conversion returns the value
\* of rgb888_to_rgb565(r, g, b), which fits in 16 bits; red, green, blue,
\* white and black give 0xF800, 0x07E0, 0x001F, 0xFFFF and 0x0000.
C34_ShimColorAgrees ==
    (/\ nif.stage = "out"
     /\ nif.entry = "extract_rgb_color"
     /\ \A k \in 1..3 : nif.args[k] \in 0..255)
    => /\ nif.res = "Ok"
       /\ nif.value = rgb888_to_rgb565(nif.args[1], nif.args[2], nif.args[3])
       /\ nif.value < U16
       /\ nif.args = <<255, 0, 0>> => nif.value = 63488
       /\ nif.args = <<0, 255, 0>> => nif.value = 2016
       /\ nif.args = <<0, 0, 255>> => nif.value = 31
       /\ nif.args = <<255, 255, 255>> => nif.value = 65535
       /\ nif.args = <<0, 0, 0>> => nif.value = 0

C34_Witness ==
    /\ nif.stage = "out"
    /\ nif.entry = "extract_rgb_color"
    /\ nif.args = <<0, 255, 0>>
    /\ nif.res = "Ok"
    /\ nif.value = 2016

(* ------------------ claims about what an operation touches ------------- *)

\* The operations C36 says never change the flag.
FlagKeepers == {"set_orientation", "enter_sleep", "exit_sleep", "set_brightness",
                "enable_cabc", "disable_cabc", "fill_rect", "set_pixel", "clear",
                "get_dimensions", "is_initialized"}

\* C36: the flag goes from false to true only at the return of an init that
\* returns Ok, and from true to false only through reset or an init that
\* fails; set_orientation, enter_sleep, exit_sleep, set_brightness,
\* enable_cabc, disable_cabc, fill_rect, set_pixel, clear, get_dimensions and
\* is_initialized never change it.
C36_FlagTransitions ==
    [][ /\ (~initialized /\ initialized')
           => (lastOp'.op = "init" /\ lastResult' = "Ok")
        /\ (initialized /\ ~initialized')
           => (lastOp'.op = "reset"
               \/ (lastOp'.op = "init" /\ lastResult' # "Ok"))
        /\ lastOp'.op \in FlagKeepers => initialized' = initialized ]_vars

C36_Witness ==
    /\ lastOp.op = "fill_rect"
    /\ lastResult = "Ok"
    /\ initialized

ChannelOps == {"init", "set_orientation", "enter_sleep", "exit_sleep",
               "set_brightness", "enable_cabc", "disable_cabc", "reset"}

\* C40: fill_rect, set_pixel and clear make no call on the channel or the
\* layer manager, whether they succeed or fail; init, set_orientation,
\* enter_sleep, exit_sleep, set_brightness, enable_cabc, disable_cabc and
\* reset change no pixel of the buffer; only init calls the layer manager.
C40_DisjointCapabilities ==
    [][ /\ lastOp'.op \in PixelOps => calls' = <<>>
        /\ lastOp'.op \in ChannelOps => fb' = fb
        /\ lastOp'.op # "init" => LtdcAt(calls') = {} ]_vars

C40_Witness ==
    /\ lastOp.op = "init"
    /\ lastResult = "Ok"
    /\ Cardinality(LtdcAt(calls)) = 3
    /\ fb[<<400, 240>>] = RED
    /\ fb[<<50, 11>>] = BLACK

====
